---- MODULE Spec2Model ----
(***************************************************************************)
(* Nova (src/app.py): a Streamlit chat front-end for a local Ollama        *)
(* server.  The module models                                              *)
(*   - the interaction loop (one script run per user interaction),         *)
(*   - the streaming client ollama_chat,                                   *)
(*   - export_markdown and autosave_session.                               *)
(*                                                                         *)
(* Text is a sequence of characters (one-character strings).  Long         *)
(* literals of the source (preset prompts, the error message) are written  *)
(* as sequences of pieces: a piece is either one whitespace character or a *)
(* run of text with no newline that neither starts nor ends with           *)
(* whitespace, so that strip() and line splitting see what Python sees.    *)
(***************************************************************************)
EXTENDS Integers, Sequences, FiniteSets, TLC

VARIABLES
    messages,            \* st.session_state["messages"]
    session_started_at,  \* st.session_state["session_started_at"]
    session_title,       \* st.session_state["session_title"]
    preset_name,         \* sidebar selectbox "Nova preset"
    autosave,            \* sidebar checkbox "Auto-save on export"
    md,                  \* data handed to the "Download Markdown" button
    files,               \* SAVE_DIR: path -> [mtime, doc]
    clock,               \* wall clock, in ticks of 1/TicksPerSecond s
    pc,                  \* "idle" | "streaming": position of the script run
    user_text,           \* chat input of the turn in progress
    assistant_text,      \* local assistant_text of the turn
    send_messages,       \* argument passed to ollama_chat
    yielded,             \* tokens the generator has yielded so far
    nlines,              \* lines read from r.iter_lines() in this turn
    outcome,             \* how the last script run's turn ended
    turn_start,          \* Len(messages) when the turn began
    response,            \* lines the backend sends (generator driven alone)
    pos,                 \* lines of response the generator has consumed
    gen,                 \* "running" | "returned" | "raised"
    call_start,          \* clock when autosave_session was entered
    saved_path,          \* path returned by autosave_session
    loaded               \* <<document read back from saved_path>>, if any

vars == <<messages, session_started_at, session_title, preset_name, autosave,
          md, files, clock, pc, user_text, assistant_text, send_messages,
          yielded, nlines, outcome, turn_start, response, pos, gen,
          call_start, saved_path, loaded>>

uiVars == <<messages, session_started_at, session_title, preset_name,
            autosave, md, files, clock, pc, user_text, assistant_text,
            send_messages, yielded, nlines, outcome, turn_start>>

genVars == <<response, pos, gen>>

ioVars == <<call_start, saved_path, loaded>>

-----------------------------------------------------------------------------
(* Bounds *)

MaxTurns == 2        \* messages a session may hold: 2 * MaxTurns
MaxLines == 1        \* lines read from the backend in one turn
MaxClock == 2        \* last clock tick
MaxSaves == 2        \* snapshots kept in SAVE_DIR
MaxStreamLen == 4    \* lines of a backend response (generator alone)
MaxTitleLen == 2     \* characters of a drawn title
MaxHistory == 2      \* messages of a drawn message list

TicksPerSecond == 2

-----------------------------------------------------------------------------
(* Python text primitives *)

None == <<"None">>

Last(s) == s[Len(s)]

AlnumChars ==
    {"a","b","c","d","e","f","g","h","i","j","k","l","m","n","o","p","q",
     "r","s","t","u","v","w","x","y","z",
     "A","B","C","D","E","F","G","H","I","J","K","L","M","N","O","P","Q",
     "R","S","T","U","V","W","X","Y","Z",
     "0","1","2","3","4","5","6","7","8","9"}

\* str.isalnum on one character
IsAlnum(c) == c \in AlnumChars

\* the characters str.strip() removes
IsSpace(c) == c \in {" ", "\t", "\n"}

RECURSIVE LStrip(_)
LStrip(s) ==
    IF s = <<>> THEN <<>>
    ELSE IF IsSpace(Head(s)) THEN LStrip(Tail(s)) ELSE s

RECURSIVE RStrip(_)
RStrip(s) ==
    IF s = <<>> THEN <<>>
    ELSE IF IsSpace(Last(s)) THEN RStrip(SubSeq(s, 1, Len(s) - 1)) ELSE s

\* str.strip()
Strip(s) == RStrip(LStrip(s))

Upper(c) ==
    CASE c = "u" -> "U"
      [] c = "a" -> "A"
      [] c = "s" -> "S"
      [] OTHER -> c

Lower(c) ==
    CASE c = "U" -> "u"
      [] c = "A" -> "a"
      [] c = "S" -> "s"
      [] OTHER -> c

\* str.capitalize(): first character upper-cased, the rest lower-cased
Capitalize(s) ==
    IF s = <<>> THEN <<>>
    ELSE <<Upper(Head(s))>> \o [i \in 1..(Len(s) - 1) |-> Lower(s[i + 1])]

\* sep.join(parts)
RECURSIVE Join(_, _)
Join(parts, sep) ==
    IF parts = <<>> THEN <<>>
    ELSE IF Len(parts) = 1 THEN parts[1]
    ELSE parts[1] \o sep \o Join(Tail(parts), sep)

RECURSIVE Concat(_)
Concat(ss) == IF ss = <<>> THEN <<>> ELSE Head(ss) \o Concat(Tail(ss))

-----------------------------------------------------------------------------
(* Config and presets *)

OLLAMA_BASE_URL == "http://localhost:11434"

RoleSystem == <<"s","y","s","t","e","m">>
RoleUser == <<"u","s","e","r">>
RoleAssistant == <<"a","s","s","i","s","t","a","n","t">>

Msg(r, c) == [role |-> r, content |-> c]

\* PRESETS: each prompt is given by its first line, "Rules:" and its last
\* line; the lines in between are left out.
PRESETS ==
    [p \in {"Nova (Default)", "Nova - MBA / Finance", "Nova - Lawyer Mode",
            "Nova - Engineering Mode"} |->
        CASE p = "Nova (Default)" ->
               <<"You are Nova: a sharp, pragmatic, structured assistant.",
                 "\n", "Rules:", "\n",
                 "- End with \"Next steps\" when the user is asking for a plan.">>
          [] p = "Nova - MBA / Finance" ->
               <<"You are Nova, acting as an MBA/finance copilot.",
                 "\n", "Rules:", "\n",
                 "- Be concise; use bullets and tables (plain text) where helpful.">>
          [] p = "Nova - Lawyer Mode" ->
               <<"You are Nova, acting as a careful legal drafting assistant (not a lawyer).",
                 "\n", "Rules:", "\n",
                 "- For drafts, use clean headings and formal tone.">>
          [] p = "Nova - Engineering Mode" ->
               <<"You are Nova, an engineering copilot.",
                 "\n", "Rules:", "\n",
                 "- Use numbered steps and short code snippets when helpful.">>]

PresetNames == DOMAIN PRESETS

DefaultPreset == "Nova (Default)"

DefaultTitle == <<"N","o","v","a"," ","S","e","s","s","i","o","n">>

-----------------------------------------------------------------------------
(* ollama_chat: the body of the loop over r.iter_lines() *)

Token(isstr, text) == [isstr |-> isstr, text |-> text]

Line(kind, msg, content, done) ==
    [kind |-> kind, msg |-> msg, content |-> content, done |-> done]

Fragments == {<<"H","e","l">>, <<"l","o">>}

\* kind: "blank"   an empty keep-alive line
\*       "garbage" a non-empty line that is not JSON
\*       "array"   a JSON array
\*       "object"  a JSON object; msg says what chunk["message"] holds:
\*                 "absent" no "message" key, "nocontent" a dict without
\*                 "content", "text" a dict with a string content,
\*                 "number" a dict whose content is a number
Lines ==
    {Line("blank", "absent", <<>>, FALSE),
     Line("garbage", "absent", <<>>, FALSE),
     Line("array", "absent", <<>>, FALSE)}
    \cup {Line("object", m, <<>>, d) :
            m \in {"absent", "nocontent", "number"}, d \in BOOLEAN}
    \cup {Line("object", "text", c, d) : c \in Fragments, d \in BOOLEAN}

\* ChunkStep with the done test ahead of the yield
ChunkStepDoneFirst(line) ==
    CASE line.kind = "blank" ->
           [yield |-> <<>>, stop |-> FALSE, raise |-> "none"]
      [] line.kind = "garbage" ->
           [yield |-> <<>>, stop |-> FALSE, raise |-> "JSONDecodeError"]
      [] line.kind = "array" ->
           [yield |-> <<>>, stop |-> FALSE, raise |-> "AttributeError"]
      [] OTHER ->
           [yield |-> IF line.msg \in {"text", "number"} /\ ~line.done
                      THEN <<Token(line.msg = "text", line.content)>>
                      ELSE <<>>,
            stop |-> line.done,
            raise |-> "none"]

\* One iteration of the for loop: what is yielded, whether the loop breaks,
\* and the exception raised, if any.
ChunkStep(line) ==
    CASE line.kind = "blank" ->
           [yield |-> <<>>, stop |-> FALSE, raise |-> "none"]
      [] line.kind = "garbage" ->
           [yield |-> <<>>, stop |-> FALSE, raise |-> "JSONDecodeError"]
      [] line.kind = "array" ->
           [yield |-> <<>>, stop |-> FALSE, raise |-> "AttributeError"]
      [] OTHER ->
           [yield |-> IF line.msg \in {"text", "number"}
                      THEN <<Token(line.msg = "text", line.content)>>
                      ELSE <<>>,
            stop |-> line.done,
            raise |-> "none"]

-----------------------------------------------------------------------------
(* export_markdown *)

Heading(m) == <<"#", "#", " ">> \o Capitalize(m.role)

\* MessageBlock with a single newline after the heading
MessageBlockTight(m) ==
    (<<"#", "#", " ">> \o Capitalize(m.role))
    \o <<"\n">> \o Strip(m.content) \o <<"\n">>

MessageBlock(m) ==
    Heading(m) \o <<"\n", "\n">> \o Strip(m.content) \o <<"\n">>

export_markdown(title, msgs) ==
    LET out == <<<<"#", " ">> \o title, <<>>>>
               \o [i \in 1..Len(msgs) |-> MessageBlock(msgs[i])]
    IN  Strip(Join(out, <<"\n">>)) \o <<"\n">>

-----------------------------------------------------------------------------
(* autosave_session *)

Digit(n) == <<"0","1","2","3","4","5","6","7","8","9">>[n + 1]

DigitValue(c) == CHOOSE n \in 0..9 : Digit(n) = c

Second(t) == t \div TicksPerSecond

\* Strftime without its seconds field
StrftimeCoarse(t) == <<Digit(Second(t) \div 10), "_", Digit(0)>>

\* datetime.strftime("%Y%m%d_%H%M%S"): zero-padded, fixed width, whole
\* seconds; the date part is the tens of the second count, the time part
\* its units.
Strftime(t) == <<Digit(Second(t) \div 10), "_", Digit(Second(t) % 10)>>

\* datetime.isoformat(): the fraction is left out when it is zero
Isoformat(t) ==
    <<Digit(Second(t) \div 10), "T", Digit(Second(t) % 10)>>
    \o (IF t % TicksPerSecond = 0 THEN <<>>
        ELSE <<".", Digit(t % TicksPerSecond)>>)

\* datetime.fromisoformat()
FromIsoformat(s) ==
    (DigitValue(s[1]) * 10 + DigitValue(s[3])) * TicksPerSecond
    + (IF Len(s) > 3 THEN DigitValue(s[5]) ELSE 0)

\* JsonEscape that leaves a backslash as it is
JsonEscapeNoBackslash(c) ==
    CASE c = "\"" -> <<"\\", "\"">>
      [] c = "\n" -> <<"\\", "n">>
      [] c = "\t" -> <<"\\", "t">>
      [] OTHER -> <<c>>

\* json: a string is written between quotes with ", \ and control
\* characters escaped
JsonEscape(c) ==
    CASE c = "\"" -> <<"\\", "\"">>
      [] c = "\\" -> <<"\\", "\\">>
      [] c = "\n" -> <<"\\", "n">>
      [] c = "\t" -> <<"\\", "t">>
      [] OTHER -> <<c>>

JsonDumpsStr(s) ==
    <<"\"">> \o Concat([i \in 1..Len(s) |-> JsonEscape(s[i])]) \o <<"\"">>

RECURSIVE JsonUnescape(_)
JsonUnescape(e) ==
    IF e = <<>> THEN <<>>
    ELSE IF Head(e) = "\\" /\ Len(e) >= 2
         THEN <<CASE e[2] = "n" -> "\n"
                  [] e[2] = "t" -> "\t"
                  [] OTHER -> e[2]>> \o JsonUnescape(SubSeq(e, 3, Len(e)))
         ELSE <<Head(e)>> \o JsonUnescape(Tail(e))

JsonLoadsStr(e) == JsonUnescape(SubSeq(e, 2, Len(e) - 1))

\* json.dump({"title": ..., "saved_at": ..., "messages": ...}, f)
JsonDump(title, saved_at, msgs) ==
    [title |-> JsonDumpsStr(title),
     saved_at |-> JsonDumpsStr(saved_at),
     messages |-> [i \in 1..Len(msgs) |->
                     [role |-> JsonDumpsStr(msgs[i].role),
                      content |-> JsonDumpsStr(msgs[i].content)]]]

\* json.load of a document written by JsonDump
JsonLoad(doc) ==
    [title |-> JsonLoadsStr(doc.title),
     saved_at |-> FromIsoformat(JsonLoadsStr(doc.saved_at)),
     messages |-> [i \in 1..Len(doc.messages) |->
                     Msg(JsonLoadsStr(doc.messages[i].role),
                         JsonLoadsStr(doc.messages[i].content))]]

\* Sanitize that drops a disallowed character instead of replacing it
SanitizeDropping(title) ==
    Strip(SelectSeq(title, LAMBDA c : IsAlnum(c) \/ c \in {" ", "-", "_"}))

Sanitize(title) ==
    Strip([i \in 1..Len(title) |->
             IF IsAlnum(title[i]) \/ title[i] \in {" ", "-", "_"}
             THEN title[i] ELSE "_"])

SafeTitle(title) ==
    IF Sanitize(title) = <<>> THEN DefaultTitle ELSE Sanitize(title)

SavePath(title, t) == SafeTitle(title) \o <<"_">> \o Strftime(t) \o <<".json">>

\* t1, t2: the clock at the two datetime.now() calls.  Returns the path and
\* the file written there.
autosave_session(title, msgs, t1, t2) ==
    [path |-> SavePath(title, t1),
     file |-> [mtime |-> t1, doc |-> JsonDump(title, Isoformat(t2), msgs)]]

\* open(path, "w") creates or truncates the file at path
WriteFile(fs, path, file) ==
    [p \in DOMAIN fs \cup {path} |-> IF p = path THEN file ELSE fs[p]]

NoFiles == [p \in {} |-> None]

-----------------------------------------------------------------------------
(* The Streamlit script: one run per user interaction *)

UserTexts == {<<"h","i">>}

UITitles == {DefaultTitle, <<" ">>, <<"!">>, <<"_">>, <<"N","o","v","a">>}

\* requests.exceptions.RequestException subclasses the call can raise
RequestExceptions == {"ConnectionError", "HTTPError"}

\* an except branch that leaves assistant_text as it was initialised
ErrorTextEmpty(e) == <<>>

\* the message of the except branch (its leading warning sign left out)
ErrorText(e) ==
    <<"Nova couldn't reach Ollama at", " ", OLLAMA_BASE_URL, ".", "\n", "\n",
      "Error:", " ", e, "\n", "\n",
      "Make sure Ollama is running and the model exists.">>

\* ComposeMessages that takes the first preset, whatever is selected
ComposeMessagesFirstPreset(preset, msgs) ==
    <<Msg(RoleSystem, Strip(PRESETS[DefaultPreset]))>> \o msgs

\* send_messages = [{"role": "system", ...}] + st.session_state["messages"]
ComposeMessages(preset, msgs) ==
    <<Msg(RoleSystem, Strip(PRESETS[preset]))>> \o msgs

\* AppendUser that also keeps the system message of a first turn
AppendUserWithSystem(msgs, text) ==
    IF msgs = <<>>
    THEN <<Msg(RoleSystem, Strip(PRESETS[DefaultPreset])), Msg(RoleUser, text)>>
    ELSE Append(msgs, Msg(RoleUser, text))

\* st.session_state["messages"].append({"role": "user", ...})
AppendUser(msgs, text) == Append(msgs, Msg(RoleUser, text))

\* the Export block of the sidebar
SidebarMd(title, msgs) ==
    IF msgs # <<>> THEN export_markdown(title, msgs) ELSE None

\* a fresh run of the script holds no locals of an earlier run
FreshLocals ==
    /\ user_text' = None
    /\ assistant_text' = <<>>
    /\ send_messages' = <<>>
    /\ yielded' = <<>>
    /\ nlines' = 0
    /\ outcome' = "none"
    /\ turn_start' = 0

SelectPreset(p) ==
    /\ pc = "idle"
    /\ p # preset_name
    /\ preset_name' = p
    /\ md' = SidebarMd(session_title, messages)
    /\ FreshLocals
    /\ UNCHANGED <<messages, session_started_at, session_title, autosave,
                   files, clock, pc, saved_path>>
    /\ UNCHANGED <<genVars, call_start, loaded>>

SetTitle(t) ==
    /\ pc = "idle"
    /\ t # session_title
    /\ session_title' = t
    /\ md' = SidebarMd(t, messages)
    /\ FreshLocals
    /\ UNCHANGED <<messages, session_started_at, preset_name, autosave,
                   files, clock, pc, saved_path>>
    /\ UNCHANGED <<genVars, call_start, loaded>>

ToggleAutosave ==
    /\ pc = "idle"
    /\ autosave' = ~autosave
    /\ md' = SidebarMd(session_title, messages)
    /\ FreshLocals
    /\ UNCHANGED <<messages, session_started_at, session_title, preset_name,
                   files, clock, pc, saved_path>>
    /\ UNCHANGED <<genVars, call_start, loaded>>

\* "New session": the state is reset, then st.rerun() runs the script afresh
NewSession ==
    /\ pc = "idle"
    /\ messages' = <<>>
    /\ session_started_at' = clock
    /\ md' = SidebarMd(session_title, <<>>)
    /\ FreshLocals
    /\ UNCHANGED <<session_title, preset_name, autosave, files, clock, pc,
                   saved_path>>
    /\ UNCHANGED <<genVars, call_start, loaded>>

\* "Clear chat"
ClearChat ==
    /\ pc = "idle"
    /\ messages' = <<>>
    /\ md' = SidebarMd(session_title, <<>>)
    /\ FreshLocals
    /\ UNCHANGED <<session_started_at, session_title, preset_name, autosave,
                   files, clock, pc, saved_path>>
    /\ UNCHANGED <<genVars, call_start, loaded>>

\* "Save JSON locally"
SaveJSON ==
    /\ pc = "idle"
    /\ messages # <<>>
    /\ autosave
    /\ \E t1 \in clock..MaxClock, t2 \in clock..MaxClock :
         /\ t1 <= t2
         /\ t2 <= clock + 1
         /\ LET r == autosave_session(session_title, messages, t1, t2) IN
              /\ r.path \in DOMAIN files \/ Cardinality(DOMAIN files) < MaxSaves
              /\ files' = WriteFile(files, r.path, r.file)
              /\ saved_path' = r.path
         /\ clock' = t2
    /\ call_start' = clock
    /\ md' = SidebarMd(session_title, messages)
    /\ FreshLocals
    /\ UNCHANGED <<messages, session_started_at, session_title, preset_name,
                   autosave, pc>>
    /\ UNCHANGED <<genVars, loaded>>

\* the wall clock advances
Tick ==
    /\ clock < MaxClock
    /\ clock' = clock + 1
    /\ UNCHANGED <<messages, session_started_at, session_title, preset_name,
                   autosave, md, files, pc, user_text, assistant_text,
                   send_messages, yielded, nlines, outcome, turn_start>>
    /\ UNCHANGED <<genVars, ioVars>>

\* the user enters text: the script runs up to the call of ollama_chat
Submit(text) ==
    /\ pc = "idle"
    /\ text # <<>>
    /\ Len(messages) < 2 * MaxTurns
    /\ md' = SidebarMd(session_title, messages)
    /\ user_text' = text
    /\ messages' = AppendUser(messages, text)
    /\ assistant_text' = <<>>
    /\ send_messages' = ComposeMessages(preset_name, messages')
    /\ yielded' = <<>>
    /\ nlines' = 0
    /\ outcome' = "none"
    /\ turn_start' = Len(messages)
    /\ pc' = "streaming"
    /\ UNCHANGED <<session_started_at, session_title, preset_name, autosave,
                   files, clock, saved_path>>
    /\ UNCHANGED <<genVars, call_start, loaded>>

\* the script run ends: st.session_state["messages"].append(assistant)
FinishTurn(text, how) ==
    /\ assistant_text' = text
    /\ messages' = Append(messages, Msg(RoleAssistant, text))
    /\ outcome' = how
    /\ pc' = "idle"

\* requests.post, raise_for_status or iter_lines raises a RequestException
TransportError(e) ==
    /\ pc = "streaming"
    /\ e = "HTTPError" => nlines = 0
    /\ FinishTurn(ErrorText(e), "transport_error")
    /\ UNCHANGED <<session_started_at, session_title, preset_name, autosave,
                   md, files, clock, user_text, send_messages, yielded,
                   nlines, turn_start>>
    /\ UNCHANGED <<genVars, ioVars>>

\* an exception other than RequestException leaves the script run
Crash ==
    /\ outcome' = "crashed"
    /\ pc' = "idle"
    /\ UNCHANGED <<messages, assistant_text>>

\* assistant_text += token, for the tokens of one iteration
TokenText(tokens) == Concat([i \in 1..Len(tokens) |-> tokens[i].text])

\* iter_lines delivers a line: one iteration of the generator's loop and of
\* the caller's loop over its tokens.  A token that is not a string makes
\* assistant_text += token raise TypeError.
RecvLine(line) ==
    /\ pc = "streaming"
    /\ nlines < MaxLines
    /\ nlines' = nlines + 1
    /\ LET r == ChunkStep(line)
           text == assistant_text \o TokenText(r.yield)
       IN
         /\ yielded' = yielded \o r.yield
         /\ IF r.raise # "none" THEN Crash
            ELSE IF r.yield # <<>> /\ ~r.yield[1].isstr THEN Crash
            ELSE IF r.stop THEN FinishTurn(text, "answered")
            ELSE /\ assistant_text' = text
                 /\ UNCHANGED <<messages, outcome, pc>>
    /\ UNCHANGED <<session_started_at, session_title, preset_name, autosave,
                   md, files, clock, user_text, send_messages, turn_start>>
    /\ UNCHANGED <<genVars, ioVars>>

\* iter_lines is exhausted without a done chunk
EndOfStream ==
    /\ pc = "streaming"
    /\ FinishTurn(assistant_text, "answered")
    /\ UNCHANGED <<session_started_at, session_title, preset_name, autosave,
                   md, files, clock, user_text, send_messages, yielded,
                   nlines, turn_start>>
    /\ UNCHANGED <<genVars, ioVars>>

Init ==
    /\ messages = <<>>
    /\ session_started_at = 0
    /\ session_title = DefaultTitle
    /\ preset_name = DefaultPreset
    /\ autosave = TRUE
    /\ md = None
    /\ files = NoFiles
    /\ clock = 0
    /\ pc = "idle"
    /\ user_text = None
    /\ assistant_text = <<>>
    /\ send_messages = <<>>
    /\ yielded = <<>>
    /\ nlines = 0
    /\ outcome = "none"
    /\ turn_start = 0
    /\ response = <<>>
    /\ pos = 0
    /\ gen = "returned"
    /\ call_start = 0
    /\ saved_path = None
    /\ loaded = <<>>

Next ==
    \/ \E p \in PresetNames : SelectPreset(p)
    \/ NewSession
    \/ ClearChat
    \/ \E text \in UserTexts : Submit(text)
    \/ \E e \in RequestExceptions : TransportError(e)
    \/ \E line \in Lines : RecvLine(line)
    \/ EndOfStream

Spec == Init /\ [][Next]_vars

-----------------------------------------------------------------------------
(* The snapshots of a session: titles typed, time passing, saves, and the
   "New session" that ends it *)

SavedHistories ==
    {<<Msg(RoleUser, <<"h","i">>), Msg(RoleAssistant, <<"H","e","l">>)>>,
     <<Msg(RoleUser, <<"h","i">>), Msg(RoleAssistant, <<>>)>>}

InitSave ==
    /\ messages \in SavedHistories
    /\ session_started_at = 0
    /\ session_title = DefaultTitle
    /\ preset_name = DefaultPreset
    /\ autosave = TRUE
    /\ md = None
    /\ files = NoFiles
    /\ clock = 0
    /\ pc = "idle"
    /\ user_text = None
    /\ assistant_text = <<>>
    /\ send_messages = <<>>
    /\ yielded = <<>>
    /\ nlines = 0
    /\ outcome = "none"
    /\ turn_start = 0
    /\ response = <<>>
    /\ pos = 0
    /\ gen = "returned"
    /\ call_start = 0
    /\ saved_path = None
    /\ loaded = <<>>

NextSave ==
    \/ \E t \in UITitles : SetTitle(t)
    \/ ToggleAutosave
    \/ Tick
    \/ SaveJSON
    \/ NewSession

SpecSave == InitSave /\ [][NextSave]_vars

-----------------------------------------------------------------------------
(* ollama_chat driven alone over a whole backend response *)

BoundedSeq(S, n) == UNION {[1..k -> S] : k \in 0..n}

InitStream ==
    /\ response \in BoundedSeq(Lines, MaxStreamLen)
    /\ pos = 0
    /\ gen = "running"
    /\ yielded = <<>>
    /\ messages = <<>>
    /\ session_started_at = 0
    /\ session_title = DefaultTitle
    /\ preset_name = DefaultPreset
    /\ autosave = TRUE
    /\ md = None
    /\ files = NoFiles
    /\ clock = 0
    /\ pc = "idle"
    /\ user_text = None
    /\ assistant_text = <<>>
    /\ send_messages = <<>>
    /\ nlines = 0
    /\ outcome = "none"
    /\ turn_start = 0
    /\ call_start = 0
    /\ saved_path = None
    /\ loaded = <<>>

\* the consumer pulls: the generator runs one iteration of its loop
GenNext ==
    /\ gen = "running"
    /\ pos < Len(response)
    /\ pos' = pos + 1
    /\ LET r == ChunkStep(response[pos + 1]) IN
         /\ yielded' = yielded \o r.yield
         /\ gen' = IF r.raise # "none" THEN "raised"
                   ELSE IF r.stop THEN "returned"
                   ELSE "running"
    /\ UNCHANGED <<messages, session_started_at, session_title, preset_name,
                   autosave, md, files, clock, pc, user_text, assistant_text,
                   send_messages, nlines, outcome, turn_start, response>>
    /\ UNCHANGED ioVars

\* r.iter_lines() is exhausted: the generator returns
GenExhausted ==
    /\ gen = "running"
    /\ pos = Len(response)
    /\ gen' = "returned"
    /\ UNCHANGED <<uiVars, ioVars, response, pos>>

NextStream == GenNext \/ GenExhausted

SpecStream == InitStream /\ [][NextStream]_vars

-----------------------------------------------------------------------------
(* export_markdown and autosave_session applied to drawn arguments *)

TitleChars == {"a", " ", "!", "\t"}

Contents == {<<>>, <<" ","a","\n","b","\n">>, <<"\"","\\","n">>}

DrawnMessages == {Msg(r, c) : r \in {RoleUser, RoleAssistant}, c \in Contents}

InitPersist ==
    /\ session_title \in BoundedSeq(TitleChars, MaxTitleLen)
    /\ messages \in BoundedSeq(DrawnMessages, MaxHistory)
    /\ clock \in {0, 1}
    /\ session_started_at = 0
    /\ preset_name = DefaultPreset
    /\ autosave = TRUE
    /\ md = None
    /\ files = NoFiles
    /\ pc = "idle"
    /\ user_text = None
    /\ assistant_text = <<>>
    /\ send_messages = <<>>
    /\ yielded = <<>>
    /\ nlines = 0
    /\ outcome = "none"
    /\ turn_start = 0
    /\ response = <<>>
    /\ pos = 0
    /\ gen = "returned"
    /\ call_start = 0
    /\ saved_path = None
    /\ loaded = <<>>

\* one function is applied to the drawn arguments
CallExport ==
    /\ md = None
    /\ saved_path = None
    /\ md' = export_markdown(session_title, messages)
    /\ UNCHANGED <<messages, session_started_at, session_title, preset_name,
                   autosave, files, clock, pc, user_text, assistant_text,
                   send_messages, yielded, nlines, outcome, turn_start>>
    /\ UNCHANGED <<genVars, ioVars>>

CallAutosave ==
    /\ saved_path = None
    /\ md = None
    /\ \E t1 \in clock..MaxClock, t2 \in clock..MaxClock :
         /\ t1 <= t2
         /\ t2 <= clock + 1
         /\ LET r == autosave_session(session_title, messages, t1, t2) IN
              /\ files' = WriteFile(files, r.path, r.file)
              /\ saved_path' = r.path
         /\ clock' = t2
    /\ call_start' = clock
    /\ UNCHANGED <<messages, session_started_at, session_title, preset_name,
                   autosave, md, pc, user_text, assistant_text,
                   send_messages, yielded, nlines, outcome, turn_start>>
    /\ UNCHANGED <<genVars, loaded>>

\* json.load of the file autosave_session wrote
ReadBack ==
    /\ saved_path # None
    /\ loaded = <<>>
    /\ loaded' = <<JsonLoad(files[saved_path].doc)>>
    /\ UNCHANGED <<uiVars, genVars, call_start, saved_path>>

NextPersist == CallExport \/ CallAutosave \/ ReadBack

SpecPersist == InitPersist /\ [][NextPersist]_vars

-----------------------------------------------------------------------------
(* Properties of the interaction loop (Spec) *)

ErrorTexts == {ErrorText(e) : e \in RequestExceptions}

\* C1: while a backend call is in flight, the list passed to ollama_chat is
\* one system message carrying the selected preset's prompt, followed by the
\* whole session history in order, whose last entry is the user message
\* just entered.
BackendGetsSystemPlusHistory ==
    pc = "streaming" =>
        /\ send_messages = <<Msg(RoleSystem, PRESETS[preset_name])>> \o messages
        /\ messages # <<>>
        /\ Last(messages) = Msg(RoleUser, user_text)

\* a turn in flight under another preset, after a failed turn and a turn
\* that left its user message alone
BackendCallAfterSwitchAndFailure ==
    /\ pc = "streaming"
    /\ preset_name # DefaultPreset
    /\ Len(messages) = 4
    /\ messages[2].content \in ErrorTexts
    /\ messages[3].role = RoleUser

\* C2: a turn that ends in a transport error leaves the loop idle with
\* exactly two messages more than before the turn: the user message and an
\* assistant message holding a non-empty error text.
TransportFailureRecorded ==
    outcome = "transport_error" =>
        /\ pc = "idle"
        /\ Len(messages) = turn_start + 2
        /\ messages[turn_start + 1] = Msg(RoleUser, user_text)
        /\ messages[turn_start + 2].role = RoleAssistant
        /\ messages[turn_start + 2].content # <<>>
        /\ messages[turn_start + 2].content = assistant_text

\* a turn fails after a fragment was streamed, in a session whose previous
\* turn had failed too
FailureMidStreamAfterFailure ==
    /\ outcome = "transport_error"
    /\ yielded # <<>>
    /\ turn_start = 2
    /\ messages[2].content \in ErrorTexts

\* C5: whenever the loop is idle, the history is an even-length strict
\* alternation user, assistant, user, assistant, ...
HistoryAlternates ==
    pc = "idle" =>
        /\ Len(messages) % 2 = 0
        /\ \A i \in 1..Len(messages) :
             messages[i].role = IF i % 2 = 1 THEN RoleUser ELSE RoleAssistant

\* C8: no message of the session history has role system, and the Markdown
\* export computed from it holds neither a System heading nor a preset's
\* prompt.
NoSystemMessageStored ==
    /\ \A i \in 1..Len(messages) :
         messages[i].role \in {RoleUser, RoleAssistant}
    /\ md # None =>
         \A k \in 1..Len(md) :
            /\ md[k] \notin {PRESETS[p][1] : p \in PresetNames}
            /\ (md[k] = "S" /\ k > 3 /\ k + 5 <= Len(md)) =>
                 SubSeq(md, k - 3, k + 5)
                     # <<"#", "#", " ", "S","y","s","t","e","m">>

\* an export of a history made under another preset, holding a failed turn
ExportAfterFailedTurn ==
    /\ md # None
    /\ preset_name # DefaultPreset
    /\ pc = "idle"
    /\ Len(messages) = 4
    /\ messages[2].content \in ErrorTexts

\* C10: a malformed chunk neither ends the script run with an exception nor
\* leaves a user message without an assistant message after it.
MalformedChunkHandled ==
    pc = "idle" =>
        /\ outcome # "crashed"
        /\ \A i \in 1..Len(messages) :
             messages[i].role = RoleUser =>
                 /\ i < Len(messages)
                 /\ messages[i + 1].role = RoleAssistant

-----------------------------------------------------------------------------
(* Properties of ollama_chat (SpecStream) *)

IsWellFormed(line) ==
    \/ line.kind = "blank"
    \/ line.kind = "object" /\ line.msg \in {"absent", "nocontent", "text"}

IsDone(line) == line.kind = "object" /\ line.done

\* index of the first done chunk, 0 if there is none
FirstDone(resp) ==
    IF \E i \in 1..Len(resp) : IsDone(resp[i])
    THEN CHOOSE i \in 1..Len(resp) :
            IsDone(resp[i]) /\ \A j \in 1..(i - 1) : ~IsDone(resp[j])
    ELSE 0

RECURSIVE FragmentsOf(_)
FragmentsOf(ls) ==
    IF ls = <<>> THEN <<>>
    ELSE (IF Head(ls).kind = "object" /\ Head(ls).msg = "text"
          THEN <<Head(ls).content>> ELSE <<>>) \o FragmentsOf(Tail(ls))

YieldedTexts == [i \in 1..Len(yielded) |-> yielded[i].text]

\* C4: on a response of well-formed chunks up to a done chunk, the fragments
\* produced are the content fragments of the lines consumed, in arrival
\* order, no line after the done chunk is consumed, and the generator
\* returns exactly at the done chunk.
StreamYieldsFragmentsUntilDone ==
    LET k == FirstDone(response) IN
    (k > 0 /\ \A i \in 1..k : IsWellFormed(response[i])) =>
        /\ pos <= k
        /\ gen # "raised"
        /\ \A i \in 1..Len(yielded) : yielded[i].isstr
        /\ YieldedTexts = FragmentsOf(SubSeq(response, 1, pos))
        /\ gen = "returned" <=> pos = k

\* "Hel", "lo", done: Hello is produced past a blank line and the line sent
\* after the done chunk is never read
HelloThenDoneWithMoreLines ==
    /\ gen = "returned"
    /\ Concat(YieldedTexts) = <<"H","e","l","l","o">>
    /\ pos < Len(response)
    /\ \E i \in 1..pos : response[i].kind = "blank"

-----------------------------------------------------------------------------
(* Properties of export_markdown and autosave_session (SpecPersist) *)

\* the path without "_", the timestamp and ".json"
TitleComponent(path) == SubSeq(path, 1, Len(path) - 5)

OnlyDisallowed(title) ==
    /\ title # <<>>
    /\ \A i \in 1..Len(title) :
         ~(title[i] \in AlnumChars \/ title[i] \in {" ", "-", "_"})

\* C3 as stated: a title of only disallowed characters gives the fallback
\* "Nova Session", and the title component is never empty.
DisallowedTitleGivesFallback ==
    saved_path # None =>
        /\ OnlyDisallowed(session_title) =>
               TitleComponent(saved_path) = DefaultTitle
        /\ TitleComponent(saved_path) # <<>>

\* C3 amended: a title of only disallowed characters gives one underscore
\* per character, a title of only spaces (or empty) gives the fallback
\* "Nova Session", and the title component is never empty.
DisallowedTitleGivesUnderscores ==
    saved_path # None =>
        /\ OnlyDisallowed(session_title) =>
               TitleComponent(saved_path) =
                   [i \in 1..Len(session_title) |-> "_"]
        /\ (\A i \in 1..Len(session_title) : session_title[i] = " ") =>
               TitleComponent(saved_path) = DefaultTitle
        /\ TitleComponent(saved_path) # <<>>

\* the title "!!" was saved
SavedDisallowedTitle ==
    /\ saved_path # None
    /\ session_title = <<"!", "!">>

\* str.split(sep)
RECURSIVE SplitOn(_, _)
SplitOn(s, sep) ==
    IF \A i \in 1..Len(s) : s[i] # sep THEN <<s>>
    ELSE LET k == CHOOSE i \in 1..Len(s) :
                     s[i] = sep /\ \A j \in 1..(i - 1) : s[j] # sep
         IN  <<SubSeq(s, 1, k - 1)>> \o SplitOn(SubSeq(s, k + 1, Len(s)), sep)

\* the newline-terminated lines of a text
LinesOf(text) ==
    LET ps == SplitOn(text, "\n") IN
    IF Last(ps) = <<>> THEN SubSeq(ps, 1, Len(ps) - 1) ELSE ps

ContentLines(m) == SplitOn(Strip(m.content), "\n")

\* line of the i-th message's heading: the title and a blank line come
\* first, and each message takes a heading, a blank line, its content and a
\* blank line
RECURSIVE HeadingAt(_, _)
HeadingAt(msgs, i) ==
    IF i = 1 THEN 3
    ELSE HeadingAt(msgs, i - 1) + 3 + Len(ContentLines(msgs[i - 1]))

ExpectedHeading(m) ==
    IF m.role = RoleUser THEN <<"#","#"," ","U","s","e","r">>
    ELSE <<"#","#"," ","A","s","s","i","s","t","a","n","t">>

HeadingBlankContent(lines, msgs, i) ==
    LET h == HeadingAt(msgs, i)
        c == ContentLines(msgs[i])
    IN  /\ h + 1 <= Len(lines)
        /\ lines[h] = ExpectedHeading(msgs[i])
        /\ lines[h + 1] = <<>>
        /\ Strip(msgs[i].content) # <<>> =>
             /\ h + 1 + Len(c) <= Len(lines)
             /\ SubSeq(lines, h + 2, h + 1 + Len(c)) = c
             /\ lines[h + 2] # <<>>

\* C6 as stated: every message has its heading (role capitalized) in the
\* original order, followed by exactly one blank line and then its content.
MarkdownBlankLineAfterEveryHeading ==
    md # None =>
        \A i \in 1..Len(messages) : HeadingBlankContent(LinesOf(md), messages, i)

\* C6 amended: as stated, except that a last message whose content is empty
\* after stripping has its heading as the last line of the output.
MarkdownBlankLineUnlessLastEmpty ==
    md # None =>
        \A i \in 1..Len(messages) :
           IF i = Len(messages) /\ Strip(messages[i].content) = <<>>
           THEN /\ Len(LinesOf(md)) = HeadingAt(messages, i)
                /\ Last(LinesOf(md)) = ExpectedHeading(messages[i])
           ELSE HeadingBlankContent(LinesOf(md), messages, i)

\* an export of a two-line content followed by an empty last message
ExportedEmptyLastMessage ==
    /\ md # None
    /\ Len(messages) = 2
    /\ messages[1].content = <<" ","a","\n","b","\n">>
    /\ messages[2] = Msg(RoleAssistant, <<>>)

\* C7: the document read back holds the original title, the message list
\* passed in, and a saved_at no earlier than the start of the call.
SnapshotRoundTrips ==
    loaded # <<>> =>
        /\ loaded[1].title = session_title
        /\ loaded[1].messages = messages
        /\ loaded[1].saved_at >= call_start

\* a snapshot read back whose title is not its file name's and whose
\* content needs escaping
ReadBackEscapedSnapshot ==
    /\ loaded # <<>>
    /\ session_title = <<"!", "\t">>
    /\ Len(messages) = 2
    /\ messages[2].content = <<"\"","\\","n">>
    /\ clock > call_start

-----------------------------------------------------------------------------
(* Properties of the session's snapshots (SpecSave) *)

\* C9: a save leaves every earlier snapshot in place, unless an earlier
\* save wrote the same path within the same clock second.
SaveKeepsEarlierSnapshots ==
    [][\A p \in DOMAIN files :
          /\ p \in DOMAIN files'
          /\ files'[p] # files[p] =>
               Second(files'[p].mtime) = Second(files[p].mtime)]_vars

\* two snapshots of one sanitized title, written in different seconds
TwoSnapshotsOfOneTitle ==
    \E p \in DOMAIN files, q \in DOMAIN files :
        /\ p # q
        /\ TitleComponent(p) = TitleComponent(q)
        /\ Second(files[p].mtime) # Second(files[q].mtime)

====
